---------------------------- MODULE Spec2Model ----------------------------
(***************************************************************************)
(* Model of lambda-functions/incident-response/lambda_function.py: one     *)
(* invocation of lambda_handler on one SNS-wrapped CloudWatch alarm event, *)
(* together with direct calls of the category handlers.                    *)
(*                                                                         *)
(* Python strings that the code searches with `in` are sequences of        *)
(* one-character strings, so that `kw in alarm_name` is a real substring   *)
(* search.  Strings the code only builds (action strings, messages) are    *)
(* sequences of tokens: the literal pieces of the f-string and the values  *)
(* interpolated into it.                                                   *)
(***************************************************************************)
EXTENDS Integers, Sequences, FiniteSets, TLC

\* ------------------------------------------------------------------ bounds
\* Largest number of fragments an alarm name is built from.
MaxFrags == 3
\* Largest number of entries of Trigger.Dimensions.
MaxDims == 1
\* Largest number of targets describe_target_health reports.
MaxTargets == 1

\* ------------------------------------------------- keyword literals (code)
KW_StatusCheck ==
    <<"S", "t", "a", "t", "u", "s", "C", "h", "e", "c", "k">>
KW_UnhealthyTargets ==
    <<"U", "n", "h", "e", "a", "l", "t", "h", "y", "T", "a", "r", "g", "e", "t", "s">>
KW_DatabaseConnections ==
    <<"D", "a", "t", "a", "b", "a", "s", "e", "C", "o", "n", "n", "e", "c", "t", "i", "o", "n", "s">>
KW_SystemHealth ==
    <<"S", "y", "s", "t", "e", "m", "H", "e", "a", "l", "t", "h">>
KW_HighCPU ==
    <<"H", "i", "g", "h", "C", "P", "U">>
KW_High5XX ==
    <<"H", "i", "g", "h", "5", "X", "X">>
KW_LowFreeStorage ==
    <<"L", "o", "w", "F", "r", "e", "e", "S", "t", "o", "r", "a", "g", "e">>
KW_HighResponseTime ==
    <<"H", "i", "g", "h", "R", "e", "s", "p", "o", "n", "s", "e", "T", "i", "m", "e">>
KW_HighReadLatency ==
    <<"H", "i", "g", "h", "R", "e", "a", "d", "L", "a", "t", "e", "n", "c", "y">>
KW_HighConnections ==
    <<"H", "i", "g", "h", "C", "o", "n", "n", "e", "c", "t", "i", "o", "n", "s">>
KW_WebServer ==
    <<"W", "e", "b", "S", "e", "r", "v", "e", "r">>
KW_EC2 ==
    <<"E", "C", "2">>
KW_RDS ==
    <<"R", "D", "S">>
KW_ALB ==
    <<"A", "L", "B">>

\* Pieces of alarm names that are not keywords of the code: the two halves
\* of a keyword, a keyword in the wrong case, and a name with no keyword.
Frag_Status ==
    <<"S", "t", "a", "t", "u", "s">>
Frag_Check ==
    <<"C", "h", "e", "c", "k">>
Frag_statuscheck ==
    <<"s", "t", "a", "t", "u", "s", "c", "h", "e", "c", "k">>
Frag_UnknownAlarm ==
    <<"U", "n", "k", "n", "o", "w", "n", "-", "A", "l", "a", "r", "m">>

\* The fragments alarm names are built from, in the order they may occur.
Fragments ==
    << KW_WebServer, KW_EC2, KW_RDS, KW_ALB, KW_SystemHealth,
       Frag_Status, Frag_Check, Frag_statuscheck, KW_StatusCheck,
       KW_UnhealthyTargets, KW_DatabaseConnections,
       KW_HighCPU, KW_High5XX, KW_LowFreeStorage,
       KW_HighResponseTime, KW_HighReadLatency, KW_HighConnections,
       Frag_UnknownAlarm >>

RECURSIVE NamesFrom(_, _)
\* Concatenations of at most n fragments taken in order from position k on.
NamesFrom(k, n) ==
    IF n = 0 \/ k > Len(Fragments)
    THEN {<< >>}
    ELSE NamesFrom(k + 1, n)
         \cup {Fragments[k] \o r : r \in NamesFrom(k + 1, n - 1)}

\* The alarm names of the documented scenarios.
Name_WebServerStatusCheckFailed ==
    KW_WebServer \o <<"-">> \o KW_StatusCheck \o <<"F", "a", "i", "l", "e", "d">>
Name_RdsHighCpu ==
    KW_RDS \o <<"-">> \o KW_HighCPU

AlarmNames ==
    NamesFrom(1, MaxFrags) \cup {Name_WebServerStatusCheckFailed, Name_RdsHighCpu}

\* ---------------------------------------------------------- Python values
\* Python's None, as returned by dict.get and os.environ.get.
None == "<None>"

\* `kw in s` on Python strings: kw occurs as a contiguous substring of s.
Contains(kw, s) ==
    \E i \in 1..(Len(s) - Len(kw) + 1) : SubSeq(s, i, i + Len(kw) - 1) = kw

\* Truthiness of an optional string: None and '' are falsy.
Truthy(v) == v # None /\ v # ""

\* A JSON value of the alarm body that the code expects to be a string.
JStr(s) == [kind |-> "str", s |-> s]
JNull == [kind |-> "null", s |-> << >>]
\* A local variable that has not been assigned yet.
Unbound == [kind |-> "unbound", s |-> << >>]

\* str(x) inside an f-string, for a value that is a string or None.
FmtName(v) ==
    IF v.kind = "str" THEN v.s ELSE IF v.kind = "null" THEN <<"None">> ELSE <<"Unknown">>

\* str(e) of the exception a failed AWS API call raises.
ApiErrorText == "An error occurred (InternalError) when calling the operation"

\* ------------------------------------------------------------- classifier
critical_indicators ==
    <<KW_StatusCheck, KW_UnhealthyTargets, KW_DatabaseConnections, KW_SystemHealth>>

high_indicators ==
    <<KW_HighCPU, KW_High5XX, KW_LowFreeStorage>>

\* any(indicator in alarm_name for indicator in indicators)
AnyIn(indicators, alarm_name) ==
    \E k \in 1..Len(indicators) : Contains(indicators[k], alarm_name)

\* A slip of lines 98-100: the high indicators are tried first.
determine_severity_HighFirst(alarm_name, message) ==
    IF AnyIn(high_indicators, alarm_name) THEN "HIGH"
    ELSE IF AnyIn(critical_indicators, alarm_name) THEN "CRITICAL"
    ELSE IF Contains(KW_HighResponseTime, alarm_name)
            \/ Contains(KW_HighReadLatency, alarm_name) THEN "MEDIUM"
    ELSE "LOW"

determine_severity(alarm_name, message) ==
    IF AnyIn(critical_indicators, alarm_name) THEN "CRITICAL"
    ELSE IF AnyIn(high_indicators, alarm_name) THEN "HIGH"
    ELSE IF Contains(KW_HighResponseTime, alarm_name)
            \/ Contains(KW_HighReadLatency, alarm_name) THEN "MEDIUM"
    ELSE "LOW"

determine_category(alarm_name) ==
    IF Contains(KW_WebServer, alarm_name) \/ Contains(KW_EC2, alarm_name) THEN "EC2"
    ELSE IF Contains(KW_RDS, alarm_name) THEN "RDS"
    ELSE IF Contains(KW_ALB, alarm_name) THEN "ALB"
    ELSE IF Contains(KW_SystemHealth, alarm_name) THEN "SYSTEM"
    ELSE "UNKNOWN"

\* ------------------------------------------------- alarm message (input)
\* The parsed alarm body's Trigger: absent, JSON null, or an object that may
\* carry a Dimensions list of {name, value} pairs.
Trigger(kind, has_dimensions, dims) ==
    [kind |-> kind, has_dimensions |-> has_dimensions, Dimensions |-> dims]

InstanceIds == {"i-0123", "i-0456"}
DbIdentifiers == {"db-1"}
TargetGroupArns == {"targetgroup/web/73e2d6bc24d8a067"}

\* The dimensions an alarm can carry; a dimension's value may be empty.
DimensionSet ==
    {[name |-> "InstanceId", value |-> v] : v \in InstanceIds \cup {""}}
    \cup {[name |-> "DBInstanceIdentifier", value |-> v] : v \in DbIdentifiers \cup {""}}
    \cup {[name |-> "TargetGroup", value |-> v] : v \in TargetGroupArns}

RECURSIVE DimensionLists(_)
\* Lists of at most n dimensions with pairwise different names.
DimensionLists(n) ==
    IF n = 0 THEN {<< >>}
    ELSE LET shorter == DimensionLists(n - 1)
         IN shorter
            \cup {Append(l, d) : l \in shorter, d \in DimensionSet}

DistinctNames(l) ==
    \A i, j \in 1..Len(l) : l[i].name = l[j].name => i = j

Triggers ==
    {Trigger("absent", FALSE, << >>), Trigger("null", FALSE, << >>),
     Trigger("object", FALSE, << >>)}
    \cup {Trigger("object", TRUE, l) :
            l \in {d \in DimensionLists(MaxDims) : DistinctNames(d)}}

\* The alarm body json.loads yields: the fields it has, and their values.
AlarmBody(present, name, state, trigger) ==
    [present |-> present, AlarmName |-> name, NewStateValue |-> state,
     Trigger |-> trigger]

RequiredFields == {"AlarmName", "NewStateValue", "NewStateReason", "Region"}

AlarmStates == {"OK", "ALARM", "INSUFFICIENT_DATA"}

\* Bodies with every required field and a string alarm name.
WellFormedBodies ==
    {AlarmBody(RequiredFields, JStr(n), st, t) :
        n \in AlarmNames, st \in AlarmStates, t \in Triggers}

\* Bodies that lack one required field, or whose AlarmName is JSON null.
DefectiveBodies ==
    {AlarmBody(RequiredFields \ {f}, JStr(n), st, Trigger("absent", FALSE, << >>)) :
        f \in RequiredFields, n \in {KW_WebServer \o KW_StatusCheck, Frag_UnknownAlarm},
        st \in AlarmStates}
    \cup {AlarmBody(RequiredFields, JNull, st, Trigger("absent", FALSE, << >>)) :
            st \in AlarmStates}

\* The SNS envelope: event['Records'][0]['Sns']['Message'] is a JSON text.
\* depth says how much of that path exists ("Message" = all of it), text
\* what kind of text Message is, and doc the value it encodes.
Envelope(depth, text, doc) ==
    [depth |-> depth, text |-> text, doc |-> doc]

AnyBody == AlarmBody(RequiredFields, JStr(Frag_UnknownAlarm), "ALARM", Trigger("absent", FALSE, << >>))

MalformedEvents ==
    {Envelope(d, "object", AnyBody) : d \in {"none", "Records", "Records[0]", "Sns"}}
    \cup {Envelope("Message", t, AnyBody) : t \in {"invalid", "array"}}

Events ==
    MalformedEvents
    \cup {Envelope("Message", "object", b) : b \in WellFormedBodies \cup DefectiveBodies}

\* --------------------------------------------------------- external calls
\* One entry of the invocation's trace of calls to collaborators: the EC2,
\* ELBv2 and SNS clients and the INCIDENT_LOG line of the logger.
Call(api, target, ok) ==
    [api |-> api, target |-> target, ok |-> ok, tags |-> << >>,
     subject |-> << >>, alarm_name |-> << >>, alarm_state |-> "",
     severity |-> "", category |-> "", actions |-> << >>,
     text |-> << >>, request_id |-> ""]

MutatingApis == {"ec2.reboot_instances", "ec2.create_tags"}

\* What a category handler hands back: its action strings, the calls it
\* made, and str(e) of an exception that left it (None when it returned).
Handled(actions, calls) ==
    [actions |-> actions, calls |-> calls, raised |-> None]

\* ------------------------------------------------------------- extractors
\* The shared body of the three extract_*_from_message functions: the value
\* of the first dimension called dim_name, None when there is none or when
\* walking the message raises (Trigger is null).
ExtractDimension(message, dim_name) ==
    IF message.Trigger.kind = "null" THEN None
    ELSE LET trigger == message.Trigger
             dimensions == IF trigger.kind = "object" /\ trigger.has_dimensions
                           THEN trigger.Dimensions ELSE << >>
             hits == {k \in 1..Len(dimensions) : dimensions[k].name = dim_name}
         IN IF hits = {} THEN None
            ELSE dimensions[CHOOSE k \in hits : \A j \in hits : k <= j].value

extract_instance_id_from_message(message) ==
    ExtractDimension(message, "InstanceId")

\* A slip of line 274: the dimension is looked up under another name.
extract_db_identifier_WrongName(message) ==
    ExtractDimension(message, "DBInstanceId")

extract_db_identifier_from_message(message) ==
    ExtractDimension(message, "DBInstanceIdentifier")

extract_target_group_from_message(message) ==
    ExtractDimension(message, "TargetGroup")

\* ------------------------------------------------------ category handlers
\* A slip of line 158: the high-CPU branch reboots as well.
ec2_branch_CpuReboots(alarm_name, severity) ==
    IF Contains(KW_StatusCheck, alarm_name) THEN "reboot"
    ELSE IF Contains(KW_HighCPU, alarm_name) /\ severity = "CRITICAL" THEN "reboot"
    ELSE "none"

\* A slip of lines 153-158: the high-CPU branch is tried first.
ec2_branch_CpuFirst(alarm_name, severity) ==
    IF Contains(KW_HighCPU, alarm_name) /\ severity = "CRITICAL" THEN "tag"
    ELSE IF Contains(KW_StatusCheck, alarm_name) THEN "reboot"
    ELSE "none"

\* Lines 153 and 158: the branch the EC2 handler takes for an identified
\* instance.
ec2_branch(alarm_name, severity) ==
    IF Contains(KW_StatusCheck, alarm_name) THEN "reboot"
    ELSE IF Contains(KW_HighCPU, alarm_name) /\ severity = "CRITICAL" THEN "tag"
    ELSE "none"

\* A handler without lines 168-170: the exception of the API call leaves it.
ec2_except_Propagates(calls) ==
    [actions |-> << >>, calls |-> calls, raised |-> ApiErrorText]

\* Lines 168-170: an exception of the API call is caught inside the handler;
\* the confirmation after the call is not reached.
ec2_except(calls) ==
    Handled(<< <<"ERROR", " handling EC2 incident", ":", " ", ApiErrorText>> >>, calls)

\* api_ok: whether the EC2 API call the handler makes (if any) succeeds.
handle_ec2_incident(alarm_name, severity, message, api_ok) ==
    LET instance_id == extract_instance_id_from_message(message)
        branch == ec2_branch(alarm_name, severity)
        reboot == Call("ec2.reboot_instances", instance_id, api_ok)
        tag == [Call("ec2.create_tags", instance_id, api_ok) EXCEPT
                  !.tags = << [Key |-> "IncidentResponse", Value |-> "HighCPU"],
                              [Key |-> "ResponseTime", Value |-> "<utcnow>"] >>]
    IN IF ~Truthy(instance_id)
       THEN Handled(<< <<"WARNING", ":", " Could not identify EC2 instance">> >>, << >>)
       ELSE IF branch = "reboot"
       THEN IF api_ok
            THEN Handled(<< <<"Rebooted EC2 instance ", instance_id>> >>, << reboot >>)
            ELSE ec2_except(<< reboot >>)
       ELSE IF branch = "tag"
       THEN IF api_ok
            THEN Handled(<< <<"Tagged instance ", instance_id,
                              " for high CPU investigation">> >>, << tag >>)
            ELSE ec2_except(<< tag >>)
       ELSE Handled(<< >>, << >>)

handle_rds_incident(alarm_name, severity, message) ==
    LET db_identifier == extract_db_identifier_from_message(message)
    IN IF ~Truthy(db_identifier)
       THEN Handled(<< <<"WARNING", ":", " Could not identify RDS instance">> >>, << >>)
       ELSE IF Contains(KW_HighConnections, alarm_name)
       THEN Handled(<< <<"High connection count detected on ", db_identifier>>,
                       <<"Recommended", ":", " Review application connection pooling">> >>,
                    << >>)
       ELSE IF Contains(KW_LowFreeStorage, alarm_name)
       THEN Handled(<< <<"Critical", ":", " Low storage on ", db_identifier>>,
                       <<"Immediate action required", ":", " Consider storage scaling">> >>,
                    << >>)
       ELSE IF Contains(KW_HighCPU, alarm_name)
       THEN Handled(<< <<"High CPU detected on ", db_identifier>>,
                       <<"Enhanced monitoring should be reviewed">> >>,
                    << >>)
       ELSE Handled(<< >>, << >>)

\* The states describe_target_health reports for a target.
TargetStates == {"healthy", "unhealthy", "draining"}
TargetIds == {"i-0123"}

RECURSIVE TargetLists(_)
TargetLists(n) ==
    IF n = 0 THEN {<< >>}
    ELSE LET shorter == TargetLists(n - 1)
         IN shorter
            \cup {Append(l, [Id |-> t, State |-> s]) :
                    l \in shorter, t \in TargetIds, s \in TargetStates}

\* What elbv2.describe_target_health does: it raises, or it returns the
\* targets of the group with their health state.
HealthOutcomes ==
    {[ok |-> FALSE, targets |-> << >>]}
    \cup {[ok |-> TRUE, targets |-> l] : l \in TargetLists(MaxTargets)}

handle_alb_incident(alarm_name, severity, message, health) ==
    IF Contains(KW_UnhealthyTargets, alarm_name)
    THEN LET target_group_arn == extract_target_group_from_message(message)
             unhealthy_targets ==
                 SelectSeq(health.targets, LAMBDA target : target.State # "healthy")
         IN IF ~Truthy(target_group_arn) THEN Handled(<< >>, << >>)
            ELSE Handled(
                   IF health.ok
                   THEN << <<"Found ", ToString(Len(unhealthy_targets)), " unhealthy targets">> >>
                        \o [k \in 1..Len(unhealthy_targets) |->
                              <<"Target ", unhealthy_targets[k].Id, " is ",
                                unhealthy_targets[k].State>>]
                   ELSE << <<"ERROR", " handling ALB incident", ":", " ", ApiErrorText>> >>,
                   << Call("elbv2.describe_target_health", target_group_arn, health.ok) >>)
    ELSE IF Contains(KW_High5XX, alarm_name)
    THEN Handled(<< <<"High 5XX error rate detected">>,
                    <<"Recommended", ":", " Check application logs and target health">> >>,
                 << >>)
    ELSE IF Contains(KW_HighResponseTime, alarm_name)
    THEN Handled(<< <<"High response time detected">>,
                    <<"Recommended", ":", " Review target performance and scaling">> >>,
                 << >>)
    ELSE Handled(<< >>, << >>)

handle_system_incident(alarm_name, severity, message) ==
    IF Contains(KW_SystemHealth, alarm_name)
    THEN Handled(<< <<"System-wide health issue detected">>,
                    <<"Multiple components may be affected">>,
                    <<"Escalating to on-call engineer">> >>,
                 << >>)
    ELSE Handled(<< >>, << >>)

handle_critical_incident(alarm_name, message) ==
    << <<"Critical incident detected - increasing monitoring frequency">> >>

\* -------------------------------------------------------------- responder
\* The handler the dispatch table selects; ALB has no branch (it is
\* commented out), so ALB and UNKNOWN run no handler.
DispatchHandler(alarm_name, severity, category, message, api_ok) ==
    IF category = "EC2" THEN handle_ec2_incident(alarm_name, severity, message, api_ok)
    ELSE IF category = "RDS" THEN handle_rds_incident(alarm_name, severity, message)
    ELSE IF category = "SYSTEM" THEN handle_system_incident(alarm_name, severity, message)
    ELSE Handled(<< >>, << >>)

\* A slip of lines 125-136: the critical branch runs before the dispatch.
execute_incident_response_CriticalFirst(alarm_name, alarm_state, severity, category, message, api_ok) ==
    LET h == DispatchHandler(alarm_name, severity, category, message, api_ok)
    IN [calls |-> h.calls,
        handler_actions |-> IF h.raised = None THEN h.actions ELSE << >>,
        actions_taken |->
            IF h.raised # None THEN << <<"ERROR", ":", " ", h.raised>> >>
            ELSE IF severity = "CRITICAL"
                 THEN handle_critical_incident(alarm_name, message) \o h.actions
                 ELSE h.actions]

\* Returns actions_taken, the calls made, and what the handler returned.
\* An exception leaving the handler skips the extend and the critical
\* branch and is recorded by the except clause.
execute_incident_response(alarm_name, alarm_state, severity, category, message, api_ok) ==
    LET h == DispatchHandler(alarm_name, severity, category, message, api_ok)
    IN [calls |-> h.calls,
        handler_actions |-> IF h.raised = None THEN h.actions ELSE << >>,
        actions_taken |->
            IF h.raised # None THEN << <<"ERROR", ":", " ", h.raised>> >>
            ELSE IF severity = "CRITICAL"
                 THEN h.actions \o handle_critical_incident(alarm_name, message)
                 ELSE h.actions]

\* ---------------------------------------------------- auditor and notifier
\* The INCIDENT_LOG line log_incident writes; context is None or a request id.
log_incident(alarm_name, alarm_state, severity, category, actions, context) ==
    << [Call("logger.info", "INCIDENT_LOG", TRUE) EXCEPT
          !.alarm_name = alarm_name, !.alarm_state = alarm_state,
          !.severity = severity, !.category = category, !.actions = actions,
          !.request_id = IF context # None THEN context ELSE "unknown"] >>

\* The values os.environ.get can return for a topic variable.
NotificationTopic == "arn:aws:sns:us-east-1:123456789012:incident-notifications"
ErrorTopic == "arn:aws:sns:us-east-1:123456789012:incident-errors"

\* send_response_notification with a retry: a failing publish is attempted
\* once more.
send_response_notification_Retries(topic_arn, publish_ok, alarm_name, severity, actions) ==
    LET publish == [Call("sns.publish", topic_arn, publish_ok) EXCEPT
                      !.subject = <<"Automated Response: ">> \o alarm_name,
                      !.alarm_name = alarm_name, !.severity = severity,
                      !.actions = actions]
    IN IF ~Truthy(topic_arn) THEN Handled(<< >>, << >>)
       ELSE IF publish_ok THEN Handled(<< >>, << publish >>)
       ELSE Handled(<< >>, << publish, publish >>)

\* send_response_notification without lines 336-337: a failing publish
\* leaves the function.
send_response_notification_Unguarded(topic_arn, publish_ok, alarm_name, severity, actions) ==
    IF ~Truthy(topic_arn) THEN Handled(<< >>, << >>)
    ELSE [actions |-> << >>,
          calls |-> << [Call("sns.publish", topic_arn, publish_ok) EXCEPT
                          !.subject = <<"Automated Response: ">> \o alarm_name,
                          !.alarm_name = alarm_name, !.severity = severity,
                          !.actions = actions] >>,
          raised |-> IF publish_ok THEN None ELSE ApiErrorText]

\* The calls send_response_notification makes, and the exception that leaves
\* it: none, the except clause of lines 336-337 logs a failing publish.
send_response_notification(topic_arn, publish_ok, alarm_name, severity, actions) ==
    IF ~Truthy(topic_arn) THEN Handled(<< >>, << >>)
    ELSE Handled(<< >>,
                 << [Call("sns.publish", topic_arn, publish_ok) EXCEPT
                       !.subject = <<"Automated Response: ">> \o alarm_name,
                       !.alarm_name = alarm_name, !.severity = severity,
                       !.actions = actions] >>)

send_error_notification(topic_arn, publish_ok, error_message) ==
    IF ~Truthy(topic_arn) THEN << >>
    ELSE << [Call("sns.publish", topic_arn, publish_ok) EXCEPT
               !.subject = <<"Incident Response Error">>,
               !.text = <<"Error in automated incident response: ">> \o error_message] >>

\* ------------------------------------------------------------------ state
VARIABLES
    callee,           \* the function under execution: lambda_handler or a handler
    event,            \* lambda_handler's event argument
    pc,               \* position inside the function
    sns_message,      \* local: the parsed alarm body
    alarm_name,       \* local: Unbound until line 33 has run
    alarm_state,      \* local
    severity,         \* local
    category,         \* local
    handler_ret,      \* what the category handler returned
    response_result,  \* local: actions_taken of execute_incident_response
    error,            \* str(e) of the exception on its way to line 75
    environ,          \* the topic variables, as read by os.environ.get
    calls,            \* trace of calls to collaborators, in order
    result            \* the value the function returned

vars ==
    <<callee, event, pc, sns_message, alarm_name, alarm_state, severity, category,
      handler_ret, response_result, error, environ, calls, result>>

Severities == {"CRITICAL", "HIGH", "MEDIUM", "LOW"}

Unread == "<unread>"
NoBody == AlarmBody({}, Unbound, "", Trigger("absent", FALSE, << >>))
NoResult ==
    [statusCode |-> 0, kind |-> "none", text |-> << >>, alarm_name |-> << >>,
     severity |-> "", actions_taken |-> << >>]

\* The body of a response that is one JSON string.
TextResult(code, text) ==
    [NoResult EXCEPT !.statusCode = code, !.kind = "text", !.text = text]

\* The body of the success response of the ALARM path.
SummaryResult(name, sev, actions) ==
    [statusCode |-> 200, kind |-> "summary",
     text |-> <<"Incident response executed successfully">>,
     alarm_name |-> name, severity |-> sev, actions_taken |-> actions]

Locals0 ==
    /\ sns_message = NoBody
    /\ alarm_name = Unbound
    /\ alarm_state = ""
    /\ severity = ""
    /\ category = ""
    /\ handler_ret = << >>
    /\ response_result = << >>
    /\ error = None
    /\ environ = [NOTIFICATION_TOPIC_ARN |-> Unread, ERROR_TOPIC_ARN |-> Unread]
    /\ calls = << >>
    /\ result = NoResult

\* lambda_handler is entered with some event.
Init ==
    /\ callee = "lambda_handler"
    /\ event \in Events
    /\ pc = "parse"
    /\ Locals0

\* ------------------------------------------------- lambda_handler, by step
\* A slip of lines 33-36: the Region field is never read.
ParseError_RegionNotRead(ev) ==
    IF ev.depth = "none" THEN "'Records'"
    ELSE IF ev.depth = "Records" THEN "list index out of range"
    ELSE IF ev.depth = "Records[0]" THEN "'Sns'"
    ELSE IF ev.depth = "Sns" THEN "'Message'"
    ELSE IF ev.text = "invalid" THEN "Expecting value: line 1 column 1 (char 0)"
    ELSE IF ev.text = "array" THEN "list indices must be integers or slices, not str"
    ELSE IF "AlarmName" \notin ev.doc.present THEN "'AlarmName'"
    ELSE IF "NewStateValue" \notin ev.doc.present THEN "'NewStateValue'"
    ELSE IF "NewStateReason" \notin ev.doc.present THEN "'NewStateReason'"
    ELSE None

\* str(e) of the exception lines 27-36 raise on this event, None if none.
ParseError(ev) ==
    IF ev.depth = "none" THEN "'Records'"
    ELSE IF ev.depth = "Records" THEN "list index out of range"
    ELSE IF ev.depth = "Records[0]" THEN "'Sns'"
    ELSE IF ev.depth = "Sns" THEN "'Message'"
    ELSE IF ev.text = "invalid" THEN "Expecting value: line 1 column 1 (char 0)"
    ELSE IF ev.text = "array" THEN "list indices must be integers or slices, not str"
    ELSE IF "AlarmName" \notin ev.doc.present THEN "'AlarmName'"
    ELSE IF "NewStateValue" \notin ev.doc.present THEN "'NewStateValue'"
    ELSE IF "NewStateReason" \notin ev.doc.present THEN "'NewStateReason'"
    ELSE IF "Region" \notin ev.doc.present THEN "'Region'"
    ELSE None

\* Lines 27-38: unwrap the envelope and read the four fields in order; the
\* locals assigned before a KeyError stay assigned.
ParseEvent ==
    /\ pc = "parse"
    /\ LET e == ParseError(event)
           loaded == event.depth = "Message" /\ event.text = "object"
           named == loaded /\ "AlarmName" \in event.doc.present
           stated == named /\ "NewStateValue" \in event.doc.present
       IN /\ error' = e
          /\ sns_message' = IF loaded THEN event.doc ELSE sns_message
          /\ alarm_name' = IF named THEN event.doc.AlarmName ELSE alarm_name
          /\ alarm_state' = IF stated THEN event.doc.NewStateValue ELSE alarm_state
          /\ pc' = IF e = None THEN "check_state" ELSE "except"
    /\ UNCHANGED <<callee, event, severity, category, handler_ret, response_result,
                   environ, calls, result>>

\* A slip of line 41: every state but OK is processed.
is_alarm_NotOk(state) == state # "OK"

\* Line 41: only the ALARM state is processed.
is_alarm(state) == state = "ALARM"

\* Lines 41-46.
CheckState ==
    /\ pc = "check_state"
    /\ IF ~is_alarm(alarm_state)
       THEN /\ result' = TextResult(200, <<"Alarm ">> \o FmtName(alarm_name) \o
                                         <<" is in ", alarm_state, " state - no action needed">>)
            /\ pc' = "done"
       ELSE /\ pc' = "classify"
            /\ UNCHANGED result
    /\ UNCHANGED <<callee, event, sns_message, alarm_name, alarm_state, severity,
                   category, handler_ret, response_result, error, environ, calls>>

\* Lines 49-50: `indicator in alarm_name` raises TypeError on None.
Classify ==
    /\ pc = "classify"
    /\ IF alarm_name.kind = "str"
       THEN /\ severity' = determine_severity(alarm_name.s, sns_message)
            /\ category' = determine_category(alarm_name.s)
            /\ pc' = "respond"
            /\ UNCHANGED error
       ELSE /\ error' = "argument of type 'NoneType' is not iterable"
            /\ pc' = "except"
            /\ UNCHANGED <<severity, category>>
    /\ UNCHANGED <<callee, event, sns_message, alarm_name, alarm_state, handler_ret,
                   response_result, environ, calls, result>>

\* Lines 55-57: the EC2 API call made on the way, if any, succeeds or fails.
Respond ==
    /\ pc = "respond"
    /\ \E api_ok \in BOOLEAN :
          LET r == execute_incident_response(alarm_name.s, alarm_state, severity,
                                             category, sns_message, api_ok)
          IN /\ response_result' = r.actions_taken
             /\ handler_ret' = r.handler_actions
             /\ calls' = calls \o r.calls
    /\ pc' = "audit"
    /\ UNCHANGED <<callee, event, sns_message, alarm_name, alarm_state, severity,
                   category, error, environ, result>>

\* The context argument: None, or an object with aws_request_id.
Contexts == {None, "req-1"}

\* Line 60.
Audit ==
    /\ pc = "audit"
    /\ \E context \in Contexts :
          calls' = calls \o log_incident(alarm_name.s, alarm_state, severity, category,
                                         response_result, context)
    /\ pc' = "notify"
    /\ UNCHANGED <<callee, event, sns_message, alarm_name, alarm_state, severity,
                   category, handler_ret, response_result, error, environ, result>>

\* Line 63: the topic variable is read here; the publish succeeds or fails.
Notify ==
    /\ pc = "notify"
    /\ \E topic_arn \in {None, "", NotificationTopic}, publish_ok \in BOOLEAN :
          LET n == send_response_notification(topic_arn, publish_ok, alarm_name.s,
                                              severity, response_result)
          IN /\ environ' = [environ EXCEPT !.NOTIFICATION_TOPIC_ARN = topic_arn]
             /\ calls' = calls \o n.calls
             /\ error' = n.raised
             /\ pc' = IF n.raised = None THEN "return" ELSE "except"
    /\ UNCHANGED <<callee, event, sns_message, alarm_name, alarm_state, severity,
                   category, handler_ret, response_result, result>>

\* Lines 65-73.
ReturnSuccess ==
    /\ pc = "return"
    /\ result' = SummaryResult(alarm_name.s, severity, response_result)
    /\ pc' = "done"
    /\ UNCHANGED <<callee, event, sns_message, alarm_name, alarm_state, severity,
                   category, handler_ret, response_result, error, environ, calls>>

\* Lines 75-86: the error topic variable is read here.
HandleException ==
    /\ pc = "except"
    /\ \E topic_arn \in {None, "", ErrorTopic}, publish_ok \in BOOLEAN :
          /\ environ' = [environ EXCEPT !.ERROR_TOPIC_ARN = topic_arn]
          /\ calls' = calls \o send_error_notification(topic_arn, publish_ok,
                         <<"Failed to process incident response for alarm: ">>
                         \o FmtName(alarm_name) \o <<". Error: ", error>>)
    /\ result' = TextResult(500, <<"Error processing incident: ", error>>)
    /\ pc' = "done"
    /\ UNCHANGED <<callee, event, sns_message, alarm_name, alarm_state, severity,
                   category, handler_ret, response_result, error>>

Next ==
    \/ ParseEvent
    \/ CheckState
    \/ Classify
    \/ Respond
    \/ Audit
    \/ Notify
    \/ ReturnSuccess
    \/ HandleException

Spec == Init /\ [][Next]_vars

\* ------------------------------------------- category handlers, called alone
\* The category handlers are module-level functions; the ALB handler is
\* reachable only by calling it directly.
Handlers == {"handle_ec2_incident", "handle_rds_incident", "handle_alb_incident"}

\* A handler is entered with an alarm name, a severity and an alarm body.
InitCall ==
    /\ callee \in Handlers
    /\ event = Envelope("none", "object", AnyBody)
    /\ pc = "call"
    /\ \E n \in AlarmNames, t \in Triggers :
          /\ alarm_name = JStr(n)
          /\ sns_message = AlarmBody(RequiredFields, JStr(n), "ALARM", t)
    /\ alarm_state = "ALARM"
    /\ severity \in Severities
    /\ category = ""
    /\ handler_ret = << >>
    /\ response_result = << >>
    /\ error = None
    /\ environ = [NOTIFICATION_TOPIC_ARN |-> Unread, ERROR_TOPIC_ARN |-> Unread]
    /\ calls = << >>
    /\ result = NoResult

\* The handler runs to its return statement.
Returned(h) ==
    /\ handler_ret' = h.actions
    /\ calls' = calls \o h.calls
    /\ pc' = "returned"
    /\ UNCHANGED <<callee, event, sns_message, alarm_name, alarm_state, severity,
                   category, response_result, error, environ, result>>

CallEc2Handler ==
    /\ pc = "call"
    /\ callee = "handle_ec2_incident"
    /\ \E api_ok \in BOOLEAN :
          Returned(handle_ec2_incident(alarm_name.s, severity, sns_message, api_ok))

CallRdsHandler ==
    /\ pc = "call"
    /\ callee = "handle_rds_incident"
    /\ Returned(handle_rds_incident(alarm_name.s, severity, sns_message))

CallAlbHandler ==
    /\ pc = "call"
    /\ callee = "handle_alb_incident"
    /\ \E health \in HealthOutcomes :
          Returned(handle_alb_incident(alarm_name.s, severity, sns_message, health))

InitHandlers == Init \/ InitCall

NextHandlers ==
    \/ Next
    \/ CallEc2Handler
    \/ CallRdsHandler
    \/ CallAlbHandler

SpecHandlers == InitHandlers /\ [][NextHandlers]_vars

\* ============================================================== properties
\* Vocabulary of the properties.

\* The event unwraps to an alarm body that has the four required fields.
Parseable(ev) ==
    /\ ev.depth = "Message"
    /\ ev.text = "object"
    /\ RequiredFields \subseteq ev.doc.present

\* The event is a parseable ALARM event with a string alarm name.
AlarmEvent ==
    /\ callee = "lambda_handler"
    /\ Parseable(event)
    /\ event.doc.NewStateValue = "ALARM"
    /\ event.doc.AlarmName.kind = "str"

\* The name of the alarm of the event.
EventName == event.doc.AlarmName.s

\* The trigger dimensions of the body carry dimension dim with value v.
Carries(body, dim, v) ==
    /\ body.Trigger.kind = "object"
    /\ body.Trigger.has_dimensions
    /\ \E k \in 1..Len(body.Trigger.Dimensions) :
          body.Trigger.Dimensions[k] = [name |-> dim, value |-> v]

\* The trigger dimensions of the body have no dimension called dim.
Lacks(body, dim) ==
    \/ body.Trigger.kind # "object"
    \/ ~body.Trigger.has_dimensions
    \/ \A k \in 1..Len(body.Trigger.Dimensions) :
          body.Trigger.Dimensions[k].name # dim

CallsTo(apis) == SelectSeq(calls, LAMBDA c : c.api \in apis)

PublishesTo(topic) ==
    SelectSeq(calls, LAMBDA c : c.api = "sns.publish" /\ c.target = topic)

AuditEntries ==
    SelectSeq(calls, LAMBDA c : c.api = "logger.info" /\ c.target = "INCIDENT_LOG")

\* String s starts with the tokens of prefix.
StartsWith(s, prefix) ==
    /\ Len(s) >= Len(prefix)
    /\ SubSeq(s, 1, Len(prefix)) = prefix

\* String s has value v interpolated into it.
Mentions(s, v) == \E k \in 1..Len(s) : s[k] = v

CriticalAdvisory == <<"Critical incident detected - increasing monitoring frequency">>

\* ----------------------------------------------------------------------- C1
\* C1: for every parseable event whose NewStateValue is not ALARM,
\* lambda_handler goes from the state check straight to its return with
\* statusCode 200 and a text body; no classification, response, audit or
\* notification runs, no call is issued and no action list is produced.
C1_NonAlarmShortCircuits ==
    (callee = "lambda_handler" /\ Parseable(event)
       /\ event.doc.NewStateValue # "ALARM")
    => /\ pc \in {"parse", "check_state", "done"}
       /\ calls = << >>
       /\ severity = "" /\ category = ""
       /\ handler_ret = << >> /\ response_result = << >>
       /\ pc = "done" => /\ result.statusCode = 200
                         /\ result.kind = "text"
                         /\ result.actions_taken = << >>

C1_Witness ==
    /\ pc = "done"
    /\ Parseable(event)
    /\ event.doc.NewStateValue = "INSUFFICIENT_DATA"
    /\ result.statusCode = 200
    /\ calls = << >>

\* ----------------------------------------------------------------------- C2
\* What C2 says of a finished invocation on a malformed event, given
\* whether the error topic variable counts as set.
MalformedOutcome(topic_is_set) ==
    /\ result.statusCode = 500
    /\ CallsTo(MutatingApis) = << >>
    /\ AuditEntries = << >>
    /\ PublishesTo(NotificationTopic) = << >>
    /\ environ.NOTIFICATION_TOPIC_ARN = Unread
    /\ IF topic_is_set
       THEN /\ Len(calls) = 1
            /\ calls[1].api = "sns.publish"
            /\ calls[1].target = environ.ERROR_TOPIC_ARN
            /\ calls[1].subject = <<"Incident Response Error">>
       ELSE calls = << >>

\* C2 as stated: a malformed event ends in statusCode 500 with no
\* remediation, audit or success notification, and with exactly one error
\* publish when ERROR_TOPIC_ARN is set (has any value) and none when it is
\* not set.
C2_AsStated ==
    (callee = "lambda_handler" /\ ~Parseable(event) /\ pc = "done")
    => MalformedOutcome(environ.ERROR_TOPIC_ARN # None)

\* C2 amended: a malformed event ends in statusCode 500 with no remediation,
\* audit or success notification, and with exactly one error publish when
\* ERROR_TOPIC_ARN is set to a non-empty value and none when it is unset or
\* empty; before the return no call has been made.
C2_MalformedEventIs500 ==
    (callee = "lambda_handler" /\ ~Parseable(event))
    => /\ pc \in {"parse", "except", "done"}
       /\ pc # "done" => calls = << >>
       /\ pc = "done" => MalformedOutcome(environ.ERROR_TOPIC_ARN \notin {None, ""})

C2_Witness ==
    /\ pc = "done"
    /\ event.depth = "Sns"
    /\ environ.ERROR_TOPIC_ARN = ErrorTopic
    /\ Len(PublishesTo(ErrorTopic)) = 1
    /\ calls[1].ok
    /\ result.statusCode = 500

\* ----------------------------------------------------------------------- C3
\* The level of the first keyword set, in the order critical, high, medium,
\* with a member that is a substring of the name; LOW when there is none.
SeverityTable ==
    << [level |-> "CRITICAL",
        keywords |-> {KW_StatusCheck, KW_UnhealthyTargets, KW_DatabaseConnections,
                      KW_SystemHealth}],
       [level |-> "HIGH", keywords |-> {KW_HighCPU, KW_High5XX, KW_LowFreeStorage}],
       [level |-> "MEDIUM", keywords |-> {KW_HighResponseTime, KW_HighReadLatency}] >>

Matches(row, name) == \E kw \in SeverityTable[row].keywords : Contains(kw, name)

FirstMatchLevel(name) ==
    LET rows == {r \in 1..Len(SeverityTable) : Matches(r, name)}
    IN IF rows = {} THEN "LOW"
       ELSE SeverityTable[CHOOSE r \in rows : \A q \in rows : r <= q].level

\* C3: the severity lambda_handler computes is the level of the first
\* matching keyword set in the order critical > high > medium, LOW when no
\* set matches; a name with a critical indicator is CRITICAL whatever else
\* it contains; the severity is a function of the alarm name alone.
C3_SeverityIsFirstMatch ==
    (callee = "lambda_handler" /\ severity # "")
    => /\ severity = FirstMatchLevel(alarm_name.s)
       /\ Matches(1, alarm_name.s) => severity = "CRITICAL"

C3_Witness ==
    /\ callee = "lambda_handler"
    /\ pc = "respond"
    /\ Contains(KW_StatusCheck, alarm_name.s)
    /\ Contains(KW_HighCPU, alarm_name.s)
    /\ Contains(KW_HighReadLatency, alarm_name.s)
    /\ severity = "CRITICAL"

\* ----------------------------------------------------------------------- C4
\* C4: an ALARM event classified EC2 whose name contains StatusCheck and
\* whose dimensions carry InstanceId = i, with the reboot call succeeding,
\* issues exactly one mutating call, the reboot of i; severity is CRITICAL,
\* the action list is the reboot confirmation for i then the critical
\* advisory, and the 200 response carries that list.
C4_StatusCheckReboots ==
    \A i \in InstanceIds :
       (/\ AlarmEvent /\ pc = "done"
        /\ category = "EC2"
        /\ Contains(KW_StatusCheck, EventName)
        /\ Carries(event.doc, "InstanceId", i)
        /\ \A k \in 1..Len(calls) :
              calls[k].api = "ec2.reboot_instances" => calls[k].ok)
       => /\ CallsTo(MutatingApis) = << Call("ec2.reboot_instances", i, TRUE) >>
          /\ severity = "CRITICAL"
          /\ response_result = << <<"Rebooted EC2 instance ", i>>, CriticalAdvisory >>
          /\ result = SummaryResult(EventName, "CRITICAL", response_result)

C4_Witness ==
    /\ AlarmEvent /\ pc = "done"
    /\ EventName = Name_WebServerStatusCheckFailed
    /\ Carries(event.doc, "InstanceId", "i-0123")
    /\ result.statusCode = 200
    /\ result.actions_taken = << <<"Rebooted EC2 instance ", "i-0123">>, CriticalAdvisory >>

\* ----------------------------------------------------------------------- C5
RdsAdvisoryName(name) ==
    \/ Contains(KW_HighCPU, name)
    \/ Contains(KW_LowFreeStorage, name)
    \/ Contains(KW_HighConnections, name)

IsAdvisory(s) ==
    /\ ~StartsWith(s, <<"WARNING">>)
    /\ ~StartsWith(s, <<"ERROR">>)

\* What C5 says of a finished ALARM invocation classified RDS with DB
\* identifier d; all_mention: both advisory strings mention d.
RdsOutcome(d, all_mention) ==
    /\ CallsTo(MutatingApis) = << >>
    /\ RdsAdvisoryName(EventName)
       => /\ Len(handler_ret) = 2
          /\ \A k \in 1..2 : IsAdvisory(handler_ret[k])
          /\ Mentions(handler_ret[1], d)
          /\ all_mention => Mentions(handler_ret[2], d)

RdsHighCpuScenario ==
    (AlarmEvent /\ pc = "done" /\ EventName = Name_RdsHighCpu)
    => category = "RDS" /\ severity = "HIGH"

\* C5 as stated: for an ALARM event classified RDS whose dimensions carry
\* DBInstanceIdentifier = d no mutating call is issued, and for high-CPU,
\* low-storage and high-connections names the RDS handler returns exactly
\* two advisory strings that both reference d; RDS-HighCPU is RDS and HIGH.
C5_AsStated ==
    /\ \A d \in DbIdentifiers :
          (AlarmEvent /\ pc = "done" /\ category = "RDS"
             /\ Carries(event.doc, "DBInstanceIdentifier", d))
          => RdsOutcome(d, TRUE)
    /\ RdsHighCpuScenario

\* C5 amended: as stated, except that of the two advisory strings the first
\* references d (the second is fixed text).
C5_RdsIsAdvisoryOnly ==
    /\ \A d \in DbIdentifiers :
          (AlarmEvent /\ pc = "done" /\ category = "RDS"
             /\ Carries(event.doc, "DBInstanceIdentifier", d))
          => RdsOutcome(d, FALSE)
    /\ RdsHighCpuScenario

C5_Witness ==
    /\ AlarmEvent /\ pc = "done"
    /\ EventName = Name_RdsHighCpu
    /\ Carries(event.doc, "DBInstanceIdentifier", "db-1")
    /\ handler_ret = << <<"High CPU detected on ", "db-1">>,
                        <<"Enhanced monitoring should be reviewed">> >>
    /\ result.actions_taken = handler_ret

\* ----------------------------------------------------------------------- C6
\* The handler returned exactly one string, a WARNING, and made no call.
OneWarningNoCall ==
    /\ Len(handler_ret) = 1
    /\ StartsWith(handler_ret[1], <<"WARNING", ":">>)
    /\ calls = << >>

\* C6: a category handler whose identifying dimension is missing from the
\* trigger dimensions (InstanceId for the EC2 handler, DBInstanceIdentifier
\* for the RDS handler, TargetGroup for the ALB handler on an
\* unhealthy-targets alarm) returns exactly one WARNING string and makes no
\* reboot, tag or health-query call; through lambda_handler the invocation
\* returns 200.
C6_MissingDimensionWarns ==
    /\ (pc = "returned" /\ callee = "handle_ec2_incident"
          /\ Lacks(sns_message, "InstanceId"))
       => OneWarningNoCall
    /\ (pc = "returned" /\ callee = "handle_rds_incident"
          /\ Lacks(sns_message, "DBInstanceIdentifier"))
       => OneWarningNoCall
    /\ (pc = "returned" /\ callee = "handle_alb_incident"
          /\ Contains(KW_UnhealthyTargets, alarm_name.s)
          /\ Lacks(sns_message, "TargetGroup"))
       => OneWarningNoCall
    /\ (AlarmEvent /\ pc = "done"
          /\ \/ category = "EC2" /\ Lacks(event.doc, "InstanceId")
             \/ category = "RDS" /\ Lacks(event.doc, "DBInstanceIdentifier"))
       => /\ result.statusCode = 200
          /\ Len(handler_ret) = 1
          /\ StartsWith(handler_ret[1], <<"WARNING", ":">>)
          /\ CallsTo(MutatingApis \cup {"elbv2.describe_target_health"}) = << >>

\* ----------------------------------------------------------------------- C7
\* A remediation call of this invocation failed.
RemediationFailed ==
    \E k \in 1..Len(calls) : calls[k].api \in MutatingApis /\ ~calls[k].ok

\* What C7 says of a finished ALARM invocation in which a remediation call
\* failed, given the prefix of the entry that records the failure.
FailureOutcome(prefix) ==
    /\ result.statusCode = 200
    /\ result.actions_taken = response_result
    /\ \E k \in 1..Len(response_result) :
          /\ StartsWith(response_result[k], prefix)
          /\ Mentions(response_result[k], ApiErrorText)
          /\ severity = "CRITICAL"
             => /\ k < Len(response_result)
                /\ response_result[k + 1] = CriticalAdvisory
    /\ \A k \in 1..Len(response_result) :
          /\ ~StartsWith(response_result[k], <<"Rebooted EC2 instance ">>)
          /\ ~StartsWith(response_result[k], <<"Tagged instance ">>)
    /\ Len(AuditEntries) = 1
    /\ AuditEntries[1].actions = response_result
    /\ environ.NOTIFICATION_TOPIC_ARN # Unread
    /\ Len(PublishesTo(NotificationTopic))
         = IF environ.NOTIFICATION_TOPIC_ARN = NotificationTopic THEN 1 ELSE 0

\* C7 as stated: a failed reboot_instances or create_tags call is recorded
\* as an action entry that begins with 'ERROR:' and carries the error
\* message, the critical advisory follows it when severity is CRITICAL,
\* audit and notification run, no confirmation of the failed call is
\* recorded, and the status is 200.
C7_AsStated ==
    (AlarmEvent /\ pc = "done" /\ RemediationFailed)
    => FailureOutcome(<<"ERROR", ":">>)

\* C7 amended: as stated, except that the entry begins with
\* 'ERROR handling EC2 incident:' (the handler's own except clause records
\* it, not the dispatch-level one).
C7_FailedCallIsRecorded ==
    (AlarmEvent /\ pc = "done" /\ RemediationFailed)
    => FailureOutcome(<<"ERROR", " handling EC2 incident", ":">>)

C7_Witness ==
    /\ AlarmEvent /\ pc = "done"
    /\ Len(calls) >= 1
    /\ calls[1].api = "ec2.create_tags" /\ ~calls[1].ok
    /\ result.statusCode = 200
    /\ result.actions_taken =
         << <<"ERROR", " handling EC2 incident", ":", " ", ApiErrorText>>,
            CriticalAdvisory >>

\* ----------------------------------------------------------------------- C8
\* C8: once send_response_notification has run, whatever the topic variable
\* held and whether or not the publish succeeded, lambda_handler goes on to
\* return 200 with the alarm name, severity and actions that were audited
\* before the notification; no publish is made when the variable is unset
\* or empty, one otherwise, and nothing is sent to the error topic.
C8_NotificationNeverChangesResult ==
    (callee = "lambda_handler" /\ environ.NOTIFICATION_TOPIC_ARN # Unread)
    => /\ pc \in {"return", "done"}
       /\ error = None
       /\ environ.ERROR_TOPIC_ARN = Unread
       /\ PublishesTo(ErrorTopic) = << >>
       /\ Len(CallsTo({"sns.publish"}))
            = IF environ.NOTIFICATION_TOPIC_ARN \in {None, ""} THEN 0 ELSE 1
       /\ Len(AuditEntries) = 1
       /\ pc = "done"
          => result = SummaryResult(AuditEntries[1].alarm_name, AuditEntries[1].severity,
                                    AuditEntries[1].actions)

C8_Witness ==
    /\ AlarmEvent /\ pc = "done"
    /\ Len(PublishesTo(NotificationTopic)) = 1
    /\ ~PublishesTo(NotificationTopic)[1].ok
    /\ result.statusCode = 200
    /\ result.actions_taken # << >>

\* ----------------------------------------------------------------------- C9
HasTagKey(c, key) == \E k \in 1..Len(c.tags) : c.tags[k].Key = key

\* Exactly one tag call, on instance i with key IncidentResponse, and no
\* reboot call.
TaggedNotRebooted(i) ==
    /\ Len(CallsTo({"ec2.create_tags"})) = 1
    /\ CallsTo({"ec2.create_tags"})[1].target = i
    /\ HasTagKey(CallsTo({"ec2.create_tags"})[1], "IncidentResponse")
    /\ CallsTo({"ec2.reboot_instances"}) = << >>

AtMostOneMutatingCall ==
    callee = "lambda_handler" => Len(CallsTo(MutatingApis)) <= 1

\* C9 as stated: an ALARM event handled by the EC2 handler with InstanceId
\* i present, whose name contains HighCPU and whose severity is CRITICAL,
\* gets exactly one tag call on i and no reboot; every invocation makes at
\* most one mutating call.
C9_AsStated ==
    /\ \A i \in InstanceIds :
          (AlarmEvent /\ pc = "done" /\ category = "EC2"
             /\ Carries(event.doc, "InstanceId", i)
             /\ Contains(KW_HighCPU, EventName) /\ severity = "CRITICAL")
          => TaggedNotRebooted(i)
    /\ AtMostOneMutatingCall

\* C9 amended: as stated, for names that contain HighCPU and do not contain
\* StatusCheck (a name with StatusCheck takes the reboot branch).
C9_HighCpuCriticalTags ==
    /\ \A i \in InstanceIds :
          (AlarmEvent /\ pc = "done" /\ category = "EC2"
             /\ Carries(event.doc, "InstanceId", i)
             /\ Contains(KW_HighCPU, EventName) /\ severity = "CRITICAL"
             /\ ~Contains(KW_StatusCheck, EventName))
          => TaggedNotRebooted(i)
    /\ AtMostOneMutatingCall

C9_Witness ==
    /\ AlarmEvent /\ pc = "done"
    /\ category = "EC2" /\ severity = "CRITICAL"
    /\ Contains(KW_HighCPU, EventName)
    /\ Carries(event.doc, "InstanceId", "i-0456")
    /\ TaggedNotRebooted("i-0456")
    /\ CallsTo({"ec2.create_tags"})[1].ok

\* ---------------------------------------------------------------------- C10
\* C10: once execute_incident_response has returned on an ALARM event, of
\* any category and whatever the handler returned, the action list has the
\* critical advisory iff severity is CRITICAL, and then exactly once, as
\* its last entry.
C10_AdvisoryIffCritical ==
    (AlarmEvent /\ pc \in {"audit", "notify", "return", "done"})
    => LET at == {k \in 1..Len(response_result) : response_result[k] = CriticalAdvisory}
       IN /\ at # {} <=> severity = "CRITICAL"
          /\ at # {} => at = {Len(response_result)}

C10_Witness ==
    /\ AlarmEvent /\ pc = "audit"
    /\ category = "EC2" /\ severity = "CRITICAL"
    /\ RemediationFailed
    /\ Len(response_result) = 2
    /\ response_result[2] = CriticalAdvisory

\* ---------------------------------------------------------------------- C11
\* The trace is: at most one remediation call, then n_audit audit entries,
\* then the calls of the sequence publishes.
TraceIs(n_audit, publishes) ==
    LET remediation == CallsTo(MutatingApis)
    IN /\ Len(remediation) <= 1
       /\ Len(AuditEntries) = n_audit
       /\ calls = remediation \o AuditEntries \o publishes

\* The action strings in the order they were attempted: what the category
\* handler returned, then the critical advisory if there is one.
AttemptedActions ==
    handler_ret \o (IF severity = "CRITICAL" THEN << CriticalAdvisory >> ELSE << >>)

\* C11: in an ALARM invocation the steps run in the order classify,
\* remediate, audit, notify, each once: nothing is called before the
\* classification, the remediation calls (at most one) precede the single
\* audit entry, the audit entry precedes the publish, at most one publish is
\* made, and in an invocation that returns 200 the audit entry, the
\* notification message and actions_taken carry the same action sequence, in
\* the order the actions were attempted.
C11_StepsInOrderOnce ==
    AlarmEvent
    => /\ pc \in {"parse", "check_state", "classify"}
          => calls = << >> /\ severity = "" /\ category = ""
       /\ pc = "respond"
          => calls = << >> /\ severity \in Severities /\ category # ""
       /\ pc = "audit" => TraceIs(0, << >>)
       /\ pc = "notify" => TraceIs(1, << >>)
       /\ pc \in {"return", "done"}
          => LET publishes == PublishesTo(NotificationTopic)
             IN /\ Len(publishes) <= 1
                /\ TraceIs(1, publishes)
                /\ response_result = AttemptedActions
                /\ AuditEntries[1].actions = response_result
                /\ \A k \in 1..Len(publishes) : publishes[k].actions = response_result
       /\ pc = "done"
          => /\ result.statusCode = 200
             /\ result.actions_taken = response_result

C11_Witness ==
    /\ AlarmEvent /\ pc = "done"
    /\ result.statusCode = 200
    /\ Len(calls) = 3
    /\ calls[1].api = "ec2.reboot_instances"
    /\ calls[2].api = "logger.info"
    /\ calls[3].api = "sns.publish"
    /\ Len(result.actions_taken) = 2
    /\ calls[2].actions = result.actions_taken
    /\ calls[3].actions = result.actions_taken

=============================================================================
